---- MODULE Spec2Model ----
(***************************************************************************)
(* The four spin locks of SpinMutex.h (namespace utils): SpinMutex,        *)
(* SharedSpinMutex, ReentrantSpinMutex and ReentrantSharedSpinMutex.       *)
(*                                                                         *)
(* One lock instance is shared by the threads of Threads.  Every read,     *)
(* write and read-modify-write of a field of the lock is one step of the   *)
(* calling thread; steps of different threads interleave freely.  Each     *)
(* atomic operation acts on the single current value of its field: the     *)
(* std::memory_order arguments are not modelled, the interleaving is       *)
(* sequentially consistent.                                                *)
(*                                                                         *)
(* pc[t] is the position of thread t: "idle" outside every member          *)
(* function, otherwise the statement it executes next.  xheld, sheld and   *)
(* ret are bookkeeping of the caller: the exclusive acquisitions and the   *)
(* shared acquisitions a thread has been granted and not yet given back,   *)
(* and the value its last try_ call returned.                              *)
(***************************************************************************)
EXTENDS Integers, FiniteSets

VARIABLES
  mutex,          \* the class of the lock instance the threads share
  g_threadId,     \* g_threadId[t]: the cached identity of thread t
  pc,             \* pc[t]: where thread t is
  xheld,          \* xheld[t]: exclusive acquisitions granted to t, not yet unlocked
  sheld,          \* sheld[t]: shared acquisitions granted to t, not yet unlocked
  ret,            \* ret[t]: "true"/"false" returned by t's last try_ call, else "none"
  aborted,        \* an assert() has failed: the process is gone
  sm_flag, sm_owner,                                  \* SpinMutex
  sh_readCount, sh_writeFlag, sh_owner,               \* SharedSpinMutex
  re_flag, re_owner, re_reenCount,                    \* ReentrantSpinMutex
  rs_readCount, rs_writeFlag, rs_owner, rs_reenCount  \* ReentrantSharedSpinMutex

smVars == <<sm_flag, sm_owner>>
shVars == <<sh_readCount, sh_writeFlag, sh_owner>>
reVars == <<re_flag, re_owner, re_reenCount>>
rsVars == <<rs_readCount, rs_writeFlag, rs_owner, rs_reenCount>>
vars == <<mutex, g_threadId, pc, xheld, sheld, ret, aborted,
          smVars, shVars, reVars, rsVars>>

\* Bounds of the model.
NThreads == 2
MaxDepth == 3
MaxShared == 2

Threads == 1 .. NThreads

Kinds == {"SpinMutex", "SharedSpinMutex", "ReentrantSpinMutex",
          "ReentrantSharedSpinMutex"}

\* Initial values of the fields of the four classes, and threads that hold
\* nothing and have called nothing.  Thread t has the identity t.
InitFields ==
  /\ sm_flag = FALSE /\ sm_owner = 0
  /\ sh_readCount = 0 /\ sh_writeFlag = FALSE /\ sh_owner = 0
  /\ re_flag = FALSE /\ re_owner = 0 /\ re_reenCount = 0
  /\ rs_readCount = 0 /\ rs_writeFlag = FALSE /\ rs_owner = 0 /\ rs_reenCount = 0

InitThreads ==
  /\ g_threadId = [t \in Threads |-> t]
  /\ pc = [t \in Threads |-> "idle"]
  /\ xheld = [t \in Threads |-> 0]
  /\ sheld = [t \in Threads |-> 0]
  /\ ret = [t \in Threads |-> "none"]
  /\ aborted = FALSE

Init == mutex \in Kinds /\ InitFields /\ InitThreads

\* Thread t moves to statement l.
Goto(t, l) == pc' = [pc EXCEPT ![t] = l]

\* Thread t returns from lock() / a successful try_lock().
ReturnLocked(t, r) ==
  /\ pc' = [pc EXCEPT ![t] = "idle"]
  /\ xheld' = [xheld EXCEPT ![t] = @ + 1]
  /\ ret' = [ret EXCEPT ![t] = r]
  /\ UNCHANGED sheld

\* Thread t returns from lock_shared() / a successful try_lock_shared().
ReturnShared(t, r) ==
  /\ pc' = [pc EXCEPT ![t] = "idle"]
  /\ sheld' = [sheld EXCEPT ![t] = @ + 1]
  /\ ret' = [ret EXCEPT ![t] = r]
  /\ UNCHANGED xheld

\* Thread t returns false from a try_ call, or returns from an unlock.
Return(t, r) ==
  /\ pc' = [pc EXCEPT ![t] = "idle"]
  /\ ret' = [ret EXCEPT ![t] = r]
  /\ UNCHANGED <<xheld, sheld>>

\* Thread t calls a member function whose first statement is l.
Call(t, l) ==
  /\ ~aborted
  /\ pc[t] = "idle"
  /\ pc' = [pc EXCEPT ![t] = l]
  /\ ret' = [ret EXCEPT ![t] = "none"]

\* Thread t is at statement l of the function it is in.
At(t, l) == ~aborted /\ pc[t] = l

Same == UNCHANGED <<mutex, g_threadId>>
Held == UNCHANGED <<xheld, sheld, ret>>

(***************************************************************************)
(* class SpinMutex                                                         *)
(***************************************************************************)
SpinMutex_frame == Same /\ UNCHANGED <<shVars, reVars, rsVars>>

SpinMutex_call_lock(t) ==
  /\ mutex = "SpinMutex" /\ xheld[t] = 0
  /\ Call(t, "sm_lock_xchg")
  /\ UNCHANGED <<xheld, sheld, aborted, smVars>> /\ SpinMutex_frame


\* Faulty variant: the loop tests the flag with a load and never sets it.
SpinMutex_lock_exchange_load(t) ==
  /\ At(t, "sm_lock_xchg")
  /\ Goto(t, IF sm_flag THEN "sm_lock_yield" ELSE "sm_lock_owner")
  /\ UNCHANGED <<smVars, aborted>> /\ Held /\ SpinMutex_frame

\* while (_flag.exchange(true, acquire)) ...
SpinMutex_lock_exchange(t) ==
  /\ At(t, "sm_lock_xchg")
  /\ sm_flag' = TRUE
  /\ Goto(t, IF sm_flag THEN "sm_lock_yield" ELSE "sm_lock_owner")
  /\ UNCHANGED <<sm_owner, aborted>> /\ Held /\ SpinMutex_frame

\* std::this_thread::yield();
SpinMutex_lock_yield(t) ==
  /\ At(t, "sm_lock_yield")
  /\ Goto(t, "sm_lock_xchg")
  /\ UNCHANGED <<smVars, aborted>> /\ Held /\ SpinMutex_frame

\* _owner = g_threadId;
SpinMutex_lock_owner(t) ==
  /\ At(t, "sm_lock_owner")
  /\ sm_owner' = g_threadId[t]
  /\ ReturnLocked(t, "none")
  /\ UNCHANGED <<sm_flag, aborted>> /\ SpinMutex_frame

SpinMutex_call_try_lock(t) ==
  /\ mutex = "SpinMutex"
  /\ Call(t, "sm_try_load")
  /\ UNCHANGED <<xheld, sheld, aborted, smVars>> /\ SpinMutex_frame

\* !_flag.load(relaxed) && ...   (false: b is false, return b)
SpinMutex_try_load(t) ==
  /\ At(t, "sm_try_load")
  /\ IF sm_flag THEN Return(t, "false")
                ELSE Goto(t, "sm_try_xchg") /\ Held
  /\ UNCHANGED <<smVars, aborted>> /\ SpinMutex_frame


\* Faulty variant: try_lock() tries again when the exchange finds the flag set.
SpinMutex_try_exchange_retry(t) ==
  /\ At(t, "sm_try_xchg")
  /\ sm_flag' = TRUE
  /\ Goto(t, IF sm_flag THEN "sm_try_load" ELSE "sm_try_owner") /\ Held
  /\ UNCHANGED <<sm_owner, aborted>> /\ SpinMutex_frame

\* ... && !_flag.exchange(true, acquire)
SpinMutex_try_exchange(t) ==
  /\ At(t, "sm_try_xchg")
  /\ sm_flag' = TRUE
  /\ IF sm_flag THEN Return(t, "false")
                ELSE Goto(t, "sm_try_owner") /\ Held
  /\ UNCHANGED <<sm_owner, aborted>> /\ SpinMutex_frame

\* if (b) _owner = g_threadId; return b;
SpinMutex_try_owner(t) ==
  /\ At(t, "sm_try_owner")
  /\ sm_owner' = g_threadId[t]
  /\ ReturnLocked(t, "true")
  /\ UNCHANGED <<sm_flag, aborted>> /\ SpinMutex_frame

\* The caller gives back its acquisition: unlock() is entered.
SpinMutex_call_unlock(t) ==
  /\ mutex = "SpinMutex" /\ xheld[t] > 0
  /\ Call(t, "sm_unlock_assert")
  /\ xheld' = [xheld EXCEPT ![t] = @ - 1]
  /\ UNCHANGED <<sheld, aborted, smVars>> /\ SpinMutex_frame


\* Faulty variant: the assertion is compiled out, unlock() goes on.
SpinMutex_unlock_assert_unchecked(t) ==
  /\ At(t, "sm_unlock_assert")
  /\ Goto(t, "sm_unlock_owner")
  /\ UNCHANGED <<smVars, aborted>> /\ Held /\ SpinMutex_frame

\* assert(_owner == g_threadId);
SpinMutex_unlock_assert(t) ==
  /\ At(t, "sm_unlock_assert")
  /\ IF sm_owner = g_threadId[t]
       THEN Goto(t, "sm_unlock_owner") /\ UNCHANGED aborted
       ELSE aborted' = TRUE /\ UNCHANGED pc
  /\ UNCHANGED smVars /\ Held /\ SpinMutex_frame


\* Faulty variant: unlock() does not clear the owner.
SpinMutex_unlock_owner_kept(t) ==
  /\ At(t, "sm_unlock_owner")
  /\ Goto(t, "sm_unlock_store")
  /\ UNCHANGED <<smVars, aborted>> /\ Held /\ SpinMutex_frame

\* _owner = 0;
SpinMutex_unlock_owner(t) ==
  /\ At(t, "sm_unlock_owner")
  /\ sm_owner' = 0
  /\ Goto(t, "sm_unlock_store")
  /\ UNCHANGED <<sm_flag, aborted>> /\ Held /\ SpinMutex_frame


\* Faulty variant: unlock() leaves the flag set.
SpinMutex_unlock_store_lost(t) ==
  /\ At(t, "sm_unlock_store")
  /\ Return(t, "none")
  /\ UNCHANGED <<smVars, aborted>> /\ SpinMutex_frame

\* _flag.store(false, release);
SpinMutex_unlock_store(t) ==
  /\ At(t, "sm_unlock_store")
  /\ sm_flag' = FALSE
  /\ Return(t, "none")
  /\ UNCHANGED <<sm_owner, aborted>> /\ SpinMutex_frame

SpinMutex_step(t) ==
  \/ SpinMutex_lock_exchange(t) \/ SpinMutex_lock_yield(t)
  \/ SpinMutex_lock_owner(t)
  \/ SpinMutex_try_load(t) \/ SpinMutex_try_exchange(t)
  \/ SpinMutex_try_owner(t)
  \/ SpinMutex_unlock_assert(t) \/ SpinMutex_unlock_owner(t)
  \/ SpinMutex_unlock_store(t)

SpinMutex_call(t) ==
  \/ SpinMutex_call_lock(t) \/ SpinMutex_call_try_lock(t)
  \/ SpinMutex_call_unlock(t)

NextSpin == \E t \in Threads : SpinMutex_call(t) \/ SpinMutex_step(t)

InitSpin == mutex = "SpinMutex" /\ InitFields /\ InitThreads

SpecSpin == InitSpin /\ [][NextSpin]_vars

(***************************************************************************)
(* class SharedSpinMutex                                                   *)
(***************************************************************************)
SharedSpinMutex_frame == Same /\ UNCHANGED <<smVars, reVars, rsVars>>

SharedSpinMutex_call_lock(t) ==
  /\ mutex = "SharedSpinMutex" /\ xheld[t] = 0 /\ sheld[t] = 0
  /\ Call(t, "sh_lock_xchg")
  /\ UNCHANGED <<xheld, sheld, aborted, shVars>> /\ SharedSpinMutex_frame

\* while (_writeFlag.exchange(true, acquire)) ...
SharedSpinMutex_lock_exchange(t) ==
  /\ At(t, "sh_lock_xchg")
  /\ sh_writeFlag' = TRUE
  /\ Goto(t, IF sh_writeFlag THEN "sh_lock_yield1" ELSE "sh_lock_drain")
  /\ UNCHANGED <<sh_readCount, sh_owner, aborted>> /\ Held
  /\ SharedSpinMutex_frame

\* std::this_thread::yield();   (first loop)
SharedSpinMutex_lock_yield1(t) ==
  /\ At(t, "sh_lock_yield1")
  /\ Goto(t, "sh_lock_xchg")
  /\ UNCHANGED <<shVars, aborted>> /\ Held /\ SharedSpinMutex_frame


\* Faulty variant: lock() does not wait for the readers to leave.
SharedSpinMutex_lock_drain_skip(t) ==
  /\ At(t, "sh_lock_drain")
  /\ Goto(t, "sh_lock_owner")
  /\ UNCHANGED <<shVars, aborted>> /\ Held /\ SharedSpinMutex_frame


\* Faulty variant: the drain loop goes on while the count is zero as well.
SharedSpinMutex_lock_drain_forever(t) ==
  /\ At(t, "sh_lock_drain")
  /\ Goto(t, IF sh_readCount >= 0 THEN "sh_lock_yield2" ELSE "sh_lock_owner")
  /\ UNCHANGED <<shVars, aborted>> /\ Held /\ SharedSpinMutex_frame

\* while (_readCount.load(relaxed) > 0) ...
SharedSpinMutex_lock_drain(t) ==
  /\ At(t, "sh_lock_drain")
  /\ Goto(t, IF sh_readCount > 0 THEN "sh_lock_yield2" ELSE "sh_lock_owner")
  /\ UNCHANGED <<shVars, aborted>> /\ Held /\ SharedSpinMutex_frame

\* std::this_thread::yield();   (second loop)
SharedSpinMutex_lock_yield2(t) ==
  /\ At(t, "sh_lock_yield2")
  /\ Goto(t, "sh_lock_drain")
  /\ UNCHANGED <<shVars, aborted>> /\ Held /\ SharedSpinMutex_frame

\* _owner = g_threadId;
SharedSpinMutex_lock_owner(t) ==
  /\ At(t, "sh_lock_owner")
  /\ sh_owner' = g_threadId[t]
  /\ ReturnLocked(t, "none")
  /\ UNCHANGED <<sh_readCount, sh_writeFlag, aborted>>
  /\ SharedSpinMutex_frame

SharedSpinMutex_call_try_lock(t) ==
  /\ mutex = "SharedSpinMutex"
  /\ Call(t, "sh_try_load")
  /\ UNCHANGED <<xheld, sheld, aborted, shVars>> /\ SharedSpinMutex_frame

\* if (_readCount.load(relaxed) == 0 && ...   (else: return false)
SharedSpinMutex_try_load(t) ==
  /\ At(t, "sh_try_load")
  /\ IF sh_readCount = 0 THEN Goto(t, "sh_try_xchg") /\ Held
                         ELSE Return(t, "false")
  /\ UNCHANGED <<shVars, aborted>> /\ SharedSpinMutex_frame

\* ... && !_writeFlag.exchange(true, acquire))   (else: return false)
SharedSpinMutex_try_exchange(t) ==
  /\ At(t, "sh_try_xchg")
  /\ sh_writeFlag' = TRUE
  /\ IF sh_writeFlag THEN Return(t, "false")
                     ELSE Goto(t, "sh_try_recheck") /\ Held
  /\ UNCHANGED <<sh_readCount, sh_owner, aborted>> /\ SharedSpinMutex_frame


\* Faulty variant: the second test of the reader count takes zero readers
\* for readers.
SharedSpinMutex_try_recheck_strict(t) ==
  /\ At(t, "sh_try_recheck")
  /\ Goto(t, IF sh_readCount >= 0 THEN "sh_try_release" ELSE "sh_try_owner")
  /\ UNCHANGED <<shVars, aborted>> /\ Held /\ SharedSpinMutex_frame

\* if (_readCount.load(relaxed) > 0) ...
SharedSpinMutex_try_recheck(t) ==
  /\ At(t, "sh_try_recheck")
  /\ Goto(t, IF sh_readCount > 0 THEN "sh_try_release" ELSE "sh_try_owner")
  /\ UNCHANGED <<shVars, aborted>> /\ Held /\ SharedSpinMutex_frame


\* Faulty variant: a try_lock() that finds a reader returns false and leaves
\* the write flag set.
SharedSpinMutex_try_release_forget(t) ==
  /\ At(t, "sh_try_release")
  /\ Return(t, "false")
  /\ UNCHANGED <<shVars, aborted>> /\ SharedSpinMutex_frame

\* _writeFlag.store(false, relaxed); return false;
SharedSpinMutex_try_release(t) ==
  /\ At(t, "sh_try_release")
  /\ sh_writeFlag' = FALSE
  /\ Return(t, "false")
  /\ UNCHANGED <<sh_readCount, sh_owner, aborted>> /\ SharedSpinMutex_frame

\* _owner = g_threadId; return true;
SharedSpinMutex_try_owner(t) ==
  /\ At(t, "sh_try_owner")
  /\ sh_owner' = g_threadId[t]
  /\ ReturnLocked(t, "true")
  /\ UNCHANGED <<sh_readCount, sh_writeFlag, aborted>>
  /\ SharedSpinMutex_frame

SharedSpinMutex_call_unlock(t) ==
  /\ mutex = "SharedSpinMutex" /\ xheld[t] > 0
  /\ Call(t, "sh_unlock_assert")
  /\ xheld' = [xheld EXCEPT ![t] = @ - 1]
  /\ UNCHANGED <<sheld, aborted, shVars>> /\ SharedSpinMutex_frame

\* assert(_owner == g_threadId);
SharedSpinMutex_unlock_assert(t) ==
  /\ At(t, "sh_unlock_assert")
  /\ IF sh_owner = g_threadId[t]
       THEN Goto(t, "sh_unlock_owner") /\ UNCHANGED aborted
       ELSE aborted' = TRUE /\ UNCHANGED pc
  /\ UNCHANGED shVars /\ Held /\ SharedSpinMutex_frame

\* _owner = 0;
SharedSpinMutex_unlock_owner(t) ==
  /\ At(t, "sh_unlock_owner")
  /\ sh_owner' = 0
  /\ Goto(t, "sh_unlock_store")
  /\ UNCHANGED <<sh_readCount, sh_writeFlag, aborted>> /\ Held
  /\ SharedSpinMutex_frame

\* _writeFlag.store(false, release);
SharedSpinMutex_unlock_store(t) ==
  /\ At(t, "sh_unlock_store")
  /\ sh_writeFlag' = FALSE
  /\ Return(t, "none")
  /\ UNCHANGED <<sh_readCount, sh_owner, aborted>> /\ SharedSpinMutex_frame

SharedSpinMutex_call_lock_shared(t) ==
  /\ mutex = "SharedSpinMutex" /\ xheld[t] = 0 /\ sheld[t] < MaxShared
  /\ Call(t, "sh_ls_inc")
  /\ UNCHANGED <<xheld, sheld, aborted, shVars>> /\ SharedSpinMutex_frame

\* _readCount.fetch_add(1, acquire);
SharedSpinMutex_lock_shared_inc(t) ==
  /\ At(t, "sh_ls_inc")
  /\ sh_readCount' = sh_readCount + 1
  /\ Goto(t, "sh_ls_check")
  /\ UNCHANGED <<sh_writeFlag, sh_owner, aborted>> /\ Held
  /\ SharedSpinMutex_frame


\* Faulty variant: lock_shared() leaves its loop whatever the write flag is.
SharedSpinMutex_lock_shared_check_blind(t) ==
  /\ At(t, "sh_ls_check")
  /\ ReturnShared(t, "none")
  /\ UNCHANGED <<shVars, aborted>> /\ SharedSpinMutex_frame

\* if (!_writeFlag.load(relaxed)) break;
SharedSpinMutex_lock_shared_check(t) ==
  /\ At(t, "sh_ls_check")
  /\ IF sh_writeFlag THEN Goto(t, "sh_ls_dec") /\ Held
                     ELSE ReturnShared(t, "none")
  /\ UNCHANGED <<shVars, aborted>> /\ SharedSpinMutex_frame


\* Faulty variant: the back-off forgets to take the increment back.
SharedSpinMutex_lock_shared_dec_forget(t) ==
  /\ At(t, "sh_ls_dec")
  /\ Goto(t, "sh_ls_yield")
  /\ UNCHANGED <<shVars, aborted>> /\ Held /\ SharedSpinMutex_frame

\* _readCount.fetch_sub(1, relaxed);
SharedSpinMutex_lock_shared_dec(t) ==
  /\ At(t, "sh_ls_dec")
  /\ sh_readCount' = sh_readCount - 1
  /\ Goto(t, "sh_ls_yield")
  /\ UNCHANGED <<sh_writeFlag, sh_owner, aborted>> /\ Held
  /\ SharedSpinMutex_frame

\* std::this_thread::yield();
SharedSpinMutex_lock_shared_yield(t) ==
  /\ At(t, "sh_ls_yield")
  /\ Goto(t, "sh_ls_inc")
  /\ UNCHANGED <<shVars, aborted>> /\ Held /\ SharedSpinMutex_frame

SharedSpinMutex_call_try_lock_shared(t) ==
  /\ mutex = "SharedSpinMutex" /\ sheld[t] < MaxShared
  /\ Call(t, "sh_tls_load")
  /\ UNCHANGED <<xheld, sheld, aborted, shVars>> /\ SharedSpinMutex_frame

\* if (!_writeFlag.load(relaxed)) ...   (else: return false)
SharedSpinMutex_try_lock_shared_load(t) ==
  /\ At(t, "sh_tls_load")
  /\ IF sh_writeFlag THEN Return(t, "false")
                     ELSE Goto(t, "sh_tls_inc") /\ Held
  /\ UNCHANGED <<shVars, aborted>> /\ SharedSpinMutex_frame

\* _readCount.fetch_add(1, acquire);
SharedSpinMutex_try_lock_shared_inc(t) ==
  /\ At(t, "sh_tls_inc")
  /\ sh_readCount' = sh_readCount + 1
  /\ Goto(t, "sh_tls_check")
  /\ UNCHANGED <<sh_writeFlag, sh_owner, aborted>> /\ Held
  /\ SharedSpinMutex_frame

\* if (_writeFlag.load(relaxed)) ... ; return true;
SharedSpinMutex_try_lock_shared_check(t) ==
  /\ At(t, "sh_tls_check")
  /\ IF sh_writeFlag THEN Goto(t, "sh_tls_dec") /\ Held
                     ELSE ReturnShared(t, "true")
  /\ UNCHANGED <<shVars, aborted>> /\ SharedSpinMutex_frame


\* Faulty variant: the failing try_lock_shared() does not take its increment back.
SharedSpinMutex_try_lock_shared_dec_forget(t) ==
  /\ At(t, "sh_tls_dec")
  /\ Return(t, "false")
  /\ UNCHANGED <<shVars, aborted>> /\ SharedSpinMutex_frame

\* _readCount.fetch_sub(1, relaxed); return false;
SharedSpinMutex_try_lock_shared_dec(t) ==
  /\ At(t, "sh_tls_dec")
  /\ sh_readCount' = sh_readCount - 1
  /\ Return(t, "false")
  /\ UNCHANGED <<sh_writeFlag, sh_owner, aborted>> /\ SharedSpinMutex_frame

SharedSpinMutex_call_unlock_shared(t) ==
  /\ mutex = "SharedSpinMutex" /\ sheld[t] > 0
  /\ Call(t, "sh_us_assert")
  /\ sheld' = [sheld EXCEPT ![t] = @ - 1]
  /\ UNCHANGED <<xheld, aborted, shVars>> /\ SharedSpinMutex_frame

\* assert(_owner == 0);
SharedSpinMutex_unlock_shared_assert(t) ==
  /\ At(t, "sh_us_assert")
  /\ IF sh_owner = 0
       THEN Goto(t, "sh_us_dec") /\ UNCHANGED aborted
       ELSE aborted' = TRUE /\ UNCHANGED pc
  /\ UNCHANGED shVars /\ Held /\ SharedSpinMutex_frame


\* Faulty variant: unlock_shared() leaves the reader count as it is.
SharedSpinMutex_unlock_shared_dec_forget(t) ==
  /\ At(t, "sh_us_dec")
  /\ Return(t, "none")
  /\ UNCHANGED <<shVars, aborted>> /\ SharedSpinMutex_frame

\* _readCount.fetch_sub(1, relaxed);
SharedSpinMutex_unlock_shared_dec(t) ==
  /\ At(t, "sh_us_dec")
  /\ sh_readCount' = sh_readCount - 1
  /\ Return(t, "none")
  /\ UNCHANGED <<sh_writeFlag, sh_owner, aborted>> /\ SharedSpinMutex_frame

SharedSpinMutex_step(t) ==
  \/ SharedSpinMutex_lock_exchange(t) \/ SharedSpinMutex_lock_yield1(t)
  \/ SharedSpinMutex_lock_drain(t) \/ SharedSpinMutex_lock_yield2(t)
  \/ SharedSpinMutex_lock_owner(t)
  \/ SharedSpinMutex_try_load(t) \/ SharedSpinMutex_try_exchange(t)
  \/ SharedSpinMutex_try_recheck(t) \/ SharedSpinMutex_try_release(t)
  \/ SharedSpinMutex_try_owner(t)
  \/ SharedSpinMutex_unlock_assert(t) \/ SharedSpinMutex_unlock_owner(t)
  \/ SharedSpinMutex_unlock_store(t)
  \/ SharedSpinMutex_lock_shared_inc(t) \/ SharedSpinMutex_lock_shared_check(t)
  \/ SharedSpinMutex_lock_shared_dec(t) \/ SharedSpinMutex_lock_shared_yield(t)
  \/ SharedSpinMutex_try_lock_shared_load(t)
  \/ SharedSpinMutex_try_lock_shared_inc(t)
  \/ SharedSpinMutex_try_lock_shared_check(t)
  \/ SharedSpinMutex_try_lock_shared_dec(t)
  \/ SharedSpinMutex_unlock_shared_assert(t)
  \/ SharedSpinMutex_unlock_shared_dec(t)

SharedSpinMutex_call(t) ==
  \/ SharedSpinMutex_call_lock(t) \/ SharedSpinMutex_call_try_lock(t)
  \/ SharedSpinMutex_call_unlock(t)
  \/ SharedSpinMutex_call_lock_shared(t)
  \/ SharedSpinMutex_call_try_lock_shared(t)
  \/ SharedSpinMutex_call_unlock_shared(t)

NextShared == \E t \in Threads : SharedSpinMutex_call(t) \/ SharedSpinMutex_step(t)

InitShared == mutex = "SharedSpinMutex" /\ InitFields /\ InitThreads

SpecShared == InitShared /\ [][NextShared]_vars

(***************************************************************************)
(* class ReentrantSpinMutex                                                *)
(***************************************************************************)
ReentrantSpinMutex_frame == Same /\ UNCHANGED <<smVars, shVars, rsVars>>

ReentrantSpinMutex_call_lock(t) ==
  /\ mutex = "ReentrantSpinMutex" /\ xheld[t] < MaxDepth
  /\ Call(t, "re_lock_chk")
  /\ UNCHANGED <<xheld, sheld, aborted, reVars>> /\ ReentrantSpinMutex_frame

\* if (_owner == g_threadId) ...
ReentrantSpinMutex_lock_check(t) ==
  /\ At(t, "re_lock_chk")
  /\ Goto(t, IF re_owner = g_threadId[t] THEN "re_lock_inc" ELSE "re_lock_xchg")
  /\ UNCHANGED <<reVars, aborted>> /\ Held /\ ReentrantSpinMutex_frame

\* _reenCount++; return;
ReentrantSpinMutex_lock_inc(t) ==
  /\ At(t, "re_lock_inc")
  /\ re_reenCount' = re_reenCount + 1
  /\ ReturnLocked(t, "none")
  /\ UNCHANGED <<re_flag, re_owner, aborted>> /\ ReentrantSpinMutex_frame

\* while (_flag.exchange(true, acquire)) ...
ReentrantSpinMutex_lock_exchange(t) ==
  /\ At(t, "re_lock_xchg")
  /\ re_flag' = TRUE
  /\ Goto(t, IF re_flag THEN "re_lock_yield" ELSE "re_lock_assert")
  /\ UNCHANGED <<re_owner, re_reenCount, aborted>> /\ Held
  /\ ReentrantSpinMutex_frame

\* std::this_thread::yield();
ReentrantSpinMutex_lock_yield(t) ==
  /\ At(t, "re_lock_yield")
  /\ Goto(t, "re_lock_xchg")
  /\ UNCHANGED <<reVars, aborted>> /\ Held /\ ReentrantSpinMutex_frame

\* assert(_reenCount == 0 && _owner == 0);
ReentrantSpinMutex_lock_assert(t) ==
  /\ At(t, "re_lock_assert")
  /\ IF re_reenCount = 0 /\ re_owner = 0
       THEN Goto(t, "re_lock_owner") /\ UNCHANGED aborted
       ELSE aborted' = TRUE /\ UNCHANGED pc
  /\ UNCHANGED reVars /\ Held /\ ReentrantSpinMutex_frame

\* _owner = g_threadId;
ReentrantSpinMutex_lock_owner(t) ==
  /\ At(t, "re_lock_owner")
  /\ re_owner' = g_threadId[t]
  /\ Goto(t, "re_lock_cnt")
  /\ UNCHANGED <<re_flag, re_reenCount, aborted>> /\ Held
  /\ ReentrantSpinMutex_frame

\* _reenCount = 1;
ReentrantSpinMutex_lock_count(t) ==
  /\ At(t, "re_lock_cnt")
  /\ re_reenCount' = 1
  /\ ReturnLocked(t, "none")
  /\ UNCHANGED <<re_flag, re_owner, aborted>> /\ ReentrantSpinMutex_frame

ReentrantSpinMutex_call_try_lock(t) ==
  /\ mutex = "ReentrantSpinMutex" /\ xheld[t] < MaxDepth
  /\ Call(t, "re_try_chk")
  /\ UNCHANGED <<xheld, sheld, aborted, reVars>> /\ ReentrantSpinMutex_frame

\* size_t currId = g_threadId; if (_owner == currId) ...
ReentrantSpinMutex_try_check(t) ==
  /\ At(t, "re_try_chk")
  /\ Goto(t, IF re_owner = g_threadId[t] THEN "re_try_inc" ELSE "re_try_load")
  /\ UNCHANGED <<reVars, aborted>> /\ Held /\ ReentrantSpinMutex_frame

\* _reenCount++; return true;
ReentrantSpinMutex_try_inc(t) ==
  /\ At(t, "re_try_inc")
  /\ re_reenCount' = re_reenCount + 1
  /\ ReturnLocked(t, "true")
  /\ UNCHANGED <<re_flag, re_owner, aborted>> /\ ReentrantSpinMutex_frame

\* if (!_flag.load(relaxed) && ...   (else: return false)
ReentrantSpinMutex_try_load(t) ==
  /\ At(t, "re_try_load")
  /\ IF re_flag THEN Return(t, "false")
                ELSE Goto(t, "re_try_xchg") /\ Held
  /\ UNCHANGED <<reVars, aborted>> /\ ReentrantSpinMutex_frame


\* Faulty variant: try_lock() goes on whatever the exchange returned.
ReentrantSpinMutex_try_exchange_ignore(t) ==
  /\ At(t, "re_try_xchg")
  /\ re_flag' = TRUE
  /\ Goto(t, "re_try_assert") /\ Held
  /\ UNCHANGED <<re_owner, re_reenCount, aborted>> /\ ReentrantSpinMutex_frame

\* ... && !_flag.exchange(true, acquire))   (else: return false)
ReentrantSpinMutex_try_exchange(t) ==
  /\ At(t, "re_try_xchg")
  /\ re_flag' = TRUE
  /\ IF re_flag THEN Return(t, "false")
                ELSE Goto(t, "re_try_assert") /\ Held
  /\ UNCHANGED <<re_owner, re_reenCount, aborted>> /\ ReentrantSpinMutex_frame

\* assert(_reenCount == 0);
ReentrantSpinMutex_try_assert(t) ==
  /\ At(t, "re_try_assert")
  /\ IF re_reenCount = 0
       THEN Goto(t, "re_try_owner") /\ UNCHANGED aborted
       ELSE aborted' = TRUE /\ UNCHANGED pc
  /\ UNCHANGED reVars /\ Held /\ ReentrantSpinMutex_frame

\* _owner = currId;
ReentrantSpinMutex_try_owner(t) ==
  /\ At(t, "re_try_owner")
  /\ re_owner' = g_threadId[t]
  /\ Goto(t, "re_try_cnt")
  /\ UNCHANGED <<re_flag, re_reenCount, aborted>> /\ Held
  /\ ReentrantSpinMutex_frame

\* _reenCount = 1; return true;
ReentrantSpinMutex_try_count(t) ==
  /\ At(t, "re_try_cnt")
  /\ re_reenCount' = 1
  /\ ReturnLocked(t, "true")
  /\ UNCHANGED <<re_flag, re_owner, aborted>> /\ ReentrantSpinMutex_frame

ReentrantSpinMutex_call_unlock(t) ==
  /\ mutex = "ReentrantSpinMutex" /\ xheld[t] > 0
  /\ Call(t, "re_unlock_assert")
  /\ xheld' = [xheld EXCEPT ![t] = @ - 1]
  /\ UNCHANGED <<sheld, aborted, reVars>> /\ ReentrantSpinMutex_frame

\* assert(_owner == g_threadId);
ReentrantSpinMutex_unlock_assert(t) ==
  /\ At(t, "re_unlock_assert")
  /\ IF re_owner = g_threadId[t]
       THEN Goto(t, "re_unlock_dec") /\ UNCHANGED aborted
       ELSE aborted' = TRUE /\ UNCHANGED pc
  /\ UNCHANGED reVars /\ Held /\ ReentrantSpinMutex_frame


\* Faulty variant: unlock() releases the lock whatever the count is.
ReentrantSpinMutex_unlock_dec_always(t) ==
  /\ At(t, "re_unlock_dec")
  /\ re_reenCount' = re_reenCount - 1
  /\ Goto(t, "re_unlock_owner") /\ Held
  /\ UNCHANGED <<re_flag, re_owner, aborted>> /\ ReentrantSpinMutex_frame

\* _reenCount--; if (_reenCount == 0) ...   (else: return)
ReentrantSpinMutex_unlock_dec(t) ==
  /\ At(t, "re_unlock_dec")
  /\ re_reenCount' = re_reenCount - 1
  /\ IF re_reenCount - 1 = 0 THEN Goto(t, "re_unlock_owner") /\ Held
                             ELSE Return(t, "none")
  /\ UNCHANGED <<re_flag, re_owner, aborted>> /\ ReentrantSpinMutex_frame


\* Faulty variant: the last unlock() does not clear the owner.
ReentrantSpinMutex_unlock_owner_kept(t) ==
  /\ At(t, "re_unlock_owner")
  /\ Goto(t, "re_unlock_store")
  /\ UNCHANGED <<reVars, aborted>> /\ Held /\ ReentrantSpinMutex_frame

\* _owner = 0;
ReentrantSpinMutex_unlock_owner(t) ==
  /\ At(t, "re_unlock_owner")
  /\ re_owner' = 0
  /\ Goto(t, "re_unlock_store")
  /\ UNCHANGED <<re_flag, re_reenCount, aborted>> /\ Held
  /\ ReentrantSpinMutex_frame

\* _flag.store(false, release);
ReentrantSpinMutex_unlock_store(t) ==
  /\ At(t, "re_unlock_store")
  /\ re_flag' = FALSE
  /\ Return(t, "none")
  /\ UNCHANGED <<re_owner, re_reenCount, aborted>> /\ ReentrantSpinMutex_frame

ReentrantSpinMutex_step(t) ==
  \/ ReentrantSpinMutex_lock_check(t) \/ ReentrantSpinMutex_lock_inc(t)
  \/ ReentrantSpinMutex_lock_exchange(t) \/ ReentrantSpinMutex_lock_yield(t)
  \/ ReentrantSpinMutex_lock_assert(t) \/ ReentrantSpinMutex_lock_owner(t)
  \/ ReentrantSpinMutex_lock_count(t)
  \/ ReentrantSpinMutex_try_check(t) \/ ReentrantSpinMutex_try_inc(t)
  \/ ReentrantSpinMutex_try_load(t) \/ ReentrantSpinMutex_try_exchange(t)
  \/ ReentrantSpinMutex_try_assert(t) \/ ReentrantSpinMutex_try_owner(t)
  \/ ReentrantSpinMutex_try_count(t)
  \/ ReentrantSpinMutex_unlock_assert(t) \/ ReentrantSpinMutex_unlock_dec(t)
  \/ ReentrantSpinMutex_unlock_owner(t) \/ ReentrantSpinMutex_unlock_store(t)

ReentrantSpinMutex_call(t) ==
  \/ ReentrantSpinMutex_call_lock(t) \/ ReentrantSpinMutex_call_try_lock(t)
  \/ ReentrantSpinMutex_call_unlock(t)

NextReentrant ==
  \E t \in Threads : ReentrantSpinMutex_call(t) \/ ReentrantSpinMutex_step(t)

InitReentrant == mutex = "ReentrantSpinMutex" /\ InitFields /\ InitThreads

SpecReentrant == InitReentrant /\ [][NextReentrant]_vars

(***************************************************************************)
(* class ReentrantSharedSpinMutex                                          *)
(***************************************************************************)
ReentrantSharedSpinMutex_frame == Same /\ UNCHANGED <<smVars, shVars, reVars>>

ReentrantSharedSpinMutex_call_lock(t) ==
  /\ mutex = "ReentrantSharedSpinMutex" /\ xheld[t] < MaxDepth /\ sheld[t] = 0
  /\ Call(t, "rs_lock_chk")
  /\ UNCHANGED <<xheld, sheld, aborted, rsVars>>
  /\ ReentrantSharedSpinMutex_frame

\* size_t currId = g_threadId; if (_owner == currId) ...
ReentrantSharedSpinMutex_lock_check(t) ==
  /\ At(t, "rs_lock_chk")
  /\ Goto(t, IF rs_owner = g_threadId[t] THEN "rs_lock_nested" ELSE "rs_lock_xchg")
  /\ UNCHANGED <<rsVars, aborted>> /\ Held /\ ReentrantSharedSpinMutex_frame

\* assert(_reenCount > 0);
ReentrantSharedSpinMutex_lock_nested(t) ==
  /\ At(t, "rs_lock_nested")
  /\ IF rs_reenCount > 0
       THEN Goto(t, "rs_lock_inc") /\ UNCHANGED aborted
       ELSE aborted' = TRUE /\ UNCHANGED pc
  /\ UNCHANGED rsVars /\ Held /\ ReentrantSharedSpinMutex_frame

\* _reenCount++; return;
ReentrantSharedSpinMutex_lock_inc(t) ==
  /\ At(t, "rs_lock_inc")
  /\ rs_reenCount' = rs_reenCount + 1
  /\ ReturnLocked(t, "none")
  /\ UNCHANGED <<rs_readCount, rs_writeFlag, rs_owner, aborted>>
  /\ ReentrantSharedSpinMutex_frame

\* while (_writeFlag.exchange(true, acquire)) ...
ReentrantSharedSpinMutex_lock_exchange(t) ==
  /\ At(t, "rs_lock_xchg")
  /\ rs_writeFlag' = TRUE
  /\ Goto(t, IF rs_writeFlag THEN "rs_lock_yield1" ELSE "rs_lock_drain")
  /\ UNCHANGED <<rs_readCount, rs_owner, rs_reenCount, aborted>> /\ Held
  /\ ReentrantSharedSpinMutex_frame

\* std::this_thread::yield();   (first loop)
ReentrantSharedSpinMutex_lock_yield1(t) ==
  /\ At(t, "rs_lock_yield1")
  /\ Goto(t, "rs_lock_xchg")
  /\ UNCHANGED <<rsVars, aborted>> /\ Held /\ ReentrantSharedSpinMutex_frame


\* Faulty variant: lock() does not wait for the readers to leave.
ReentrantSharedSpinMutex_lock_drain_skip(t) ==
  /\ At(t, "rs_lock_drain")
  /\ Goto(t, "rs_lock_assert")
  /\ UNCHANGED <<rsVars, aborted>> /\ Held /\ ReentrantSharedSpinMutex_frame

\* while (_readCount.load(relaxed) > 0) ...
ReentrantSharedSpinMutex_lock_drain(t) ==
  /\ At(t, "rs_lock_drain")
  /\ Goto(t, IF rs_readCount > 0 THEN "rs_lock_yield2" ELSE "rs_lock_assert")
  /\ UNCHANGED <<rsVars, aborted>> /\ Held /\ ReentrantSharedSpinMutex_frame

\* std::this_thread::yield();   (second loop)
ReentrantSharedSpinMutex_lock_yield2(t) ==
  /\ At(t, "rs_lock_yield2")
  /\ Goto(t, "rs_lock_drain")
  /\ UNCHANGED <<rsVars, aborted>> /\ Held /\ ReentrantSharedSpinMutex_frame

\* assert(_reenCount == 0);
ReentrantSharedSpinMutex_lock_assert(t) ==
  /\ At(t, "rs_lock_assert")
  /\ IF rs_reenCount = 0
       THEN Goto(t, "rs_lock_owner") /\ UNCHANGED aborted
       ELSE aborted' = TRUE /\ UNCHANGED pc
  /\ UNCHANGED rsVars /\ Held /\ ReentrantSharedSpinMutex_frame

\* _owner = currId;
ReentrantSharedSpinMutex_lock_owner(t) ==
  /\ At(t, "rs_lock_owner")
  /\ rs_owner' = g_threadId[t]
  /\ Goto(t, "rs_lock_cnt")
  /\ UNCHANGED <<rs_readCount, rs_writeFlag, rs_reenCount, aborted>> /\ Held
  /\ ReentrantSharedSpinMutex_frame

\* _reenCount = 1;
ReentrantSharedSpinMutex_lock_count(t) ==
  /\ At(t, "rs_lock_cnt")
  /\ rs_reenCount' = 1
  /\ ReturnLocked(t, "none")
  /\ UNCHANGED <<rs_readCount, rs_writeFlag, rs_owner, aborted>>
  /\ ReentrantSharedSpinMutex_frame

ReentrantSharedSpinMutex_call_try_lock(t) ==
  /\ mutex = "ReentrantSharedSpinMutex" /\ xheld[t] < MaxDepth
  /\ Call(t, "rs_try_chk")
  /\ UNCHANGED <<xheld, sheld, aborted, rsVars>>
  /\ ReentrantSharedSpinMutex_frame

\* size_t currId = g_threadId; if (_owner == currId) ...
ReentrantSharedSpinMutex_try_check(t) ==
  /\ At(t, "rs_try_chk")
  /\ Goto(t, IF rs_owner = g_threadId[t] THEN "rs_try_nested" ELSE "rs_try_load")
  /\ UNCHANGED <<rsVars, aborted>> /\ Held /\ ReentrantSharedSpinMutex_frame

\* assert(_reenCount > 0);
ReentrantSharedSpinMutex_try_nested(t) ==
  /\ At(t, "rs_try_nested")
  /\ IF rs_reenCount > 0
       THEN Goto(t, "rs_try_inc") /\ UNCHANGED aborted
       ELSE aborted' = TRUE /\ UNCHANGED pc
  /\ UNCHANGED rsVars /\ Held /\ ReentrantSharedSpinMutex_frame

\* _reenCount++; return true;
ReentrantSharedSpinMutex_try_inc(t) ==
  /\ At(t, "rs_try_inc")
  /\ rs_reenCount' = rs_reenCount + 1
  /\ ReturnLocked(t, "true")
  /\ UNCHANGED <<rs_readCount, rs_writeFlag, rs_owner, aborted>>
  /\ ReentrantSharedSpinMutex_frame

\* if (_readCount.load(relaxed) == 0 && ...   (else: return false)
ReentrantSharedSpinMutex_try_load(t) ==
  /\ At(t, "rs_try_load")
  /\ IF rs_readCount = 0 THEN Goto(t, "rs_try_xchg") /\ Held
                         ELSE Return(t, "false")
  /\ UNCHANGED <<rsVars, aborted>> /\ ReentrantSharedSpinMutex_frame

\* ... && !_writeFlag.exchange(true, acquire))   (else: return false)
ReentrantSharedSpinMutex_try_exchange(t) ==
  /\ At(t, "rs_try_xchg")
  /\ rs_writeFlag' = TRUE
  /\ IF rs_writeFlag THEN Return(t, "false")
                     ELSE Goto(t, "rs_try_recheck") /\ Held
  /\ UNCHANGED <<rs_readCount, rs_owner, rs_reenCount, aborted>>
  /\ ReentrantSharedSpinMutex_frame

\* if (_readCount.load(relaxed) > 0) ...
ReentrantSharedSpinMutex_try_recheck(t) ==
  /\ At(t, "rs_try_recheck")
  /\ Goto(t, IF rs_readCount > 0 THEN "rs_try_release" ELSE "rs_try_assert")
  /\ UNCHANGED <<rsVars, aborted>> /\ Held /\ ReentrantSharedSpinMutex_frame

\* _writeFlag.store(false, relaxed); return false;
ReentrantSharedSpinMutex_try_release(t) ==
  /\ At(t, "rs_try_release")
  /\ rs_writeFlag' = FALSE
  /\ Return(t, "false")
  /\ UNCHANGED <<rs_readCount, rs_owner, rs_reenCount, aborted>>
  /\ ReentrantSharedSpinMutex_frame

\* assert(_reenCount == 0);
ReentrantSharedSpinMutex_try_assert(t) ==
  /\ At(t, "rs_try_assert")
  /\ IF rs_reenCount = 0
       THEN Goto(t, "rs_try_owner") /\ UNCHANGED aborted
       ELSE aborted' = TRUE /\ UNCHANGED pc
  /\ UNCHANGED rsVars /\ Held /\ ReentrantSharedSpinMutex_frame

\* _owner = currId;
ReentrantSharedSpinMutex_try_owner(t) ==
  /\ At(t, "rs_try_owner")
  /\ rs_owner' = g_threadId[t]
  /\ Goto(t, "rs_try_cnt")
  /\ UNCHANGED <<rs_readCount, rs_writeFlag, rs_reenCount, aborted>> /\ Held
  /\ ReentrantSharedSpinMutex_frame

\* _reenCount = 1; return true;
ReentrantSharedSpinMutex_try_count(t) ==
  /\ At(t, "rs_try_cnt")
  /\ rs_reenCount' = 1
  /\ ReturnLocked(t, "true")
  /\ UNCHANGED <<rs_readCount, rs_writeFlag, rs_owner, aborted>>
  /\ ReentrantSharedSpinMutex_frame

ReentrantSharedSpinMutex_call_unlock(t) ==
  /\ mutex = "ReentrantSharedSpinMutex" /\ xheld[t] > 0
  /\ Call(t, "rs_unlock_assert")
  /\ xheld' = [xheld EXCEPT ![t] = @ - 1]
  /\ UNCHANGED <<sheld, aborted, rsVars>> /\ ReentrantSharedSpinMutex_frame

\* assert(_owner == g_threadId);
ReentrantSharedSpinMutex_unlock_assert(t) ==
  /\ At(t, "rs_unlock_assert")
  /\ IF rs_owner = g_threadId[t]
       THEN Goto(t, "rs_unlock_dec") /\ UNCHANGED aborted
       ELSE aborted' = TRUE /\ UNCHANGED pc
  /\ UNCHANGED rsVars /\ Held /\ ReentrantSharedSpinMutex_frame

\* _reenCount--; if (_reenCount == 0) ...   (else: return)
ReentrantSharedSpinMutex_unlock_dec(t) ==
  /\ At(t, "rs_unlock_dec")
  /\ rs_reenCount' = rs_reenCount - 1
  /\ IF rs_reenCount - 1 = 0 THEN Goto(t, "rs_unlock_owner") /\ Held
                             ELSE Return(t, "none")
  /\ UNCHANGED <<rs_readCount, rs_writeFlag, rs_owner, aborted>>
  /\ ReentrantSharedSpinMutex_frame


\* Faulty variant: the last unlock() does not clear the owner.
ReentrantSharedSpinMutex_unlock_owner_kept(t) ==
  /\ At(t, "rs_unlock_owner")
  /\ Goto(t, "rs_unlock_store")
  /\ UNCHANGED <<rsVars, aborted>> /\ Held /\ ReentrantSharedSpinMutex_frame

\* _owner = 0;
ReentrantSharedSpinMutex_unlock_owner(t) ==
  /\ At(t, "rs_unlock_owner")
  /\ rs_owner' = 0
  /\ Goto(t, "rs_unlock_store")
  /\ UNCHANGED <<rs_readCount, rs_writeFlag, rs_reenCount, aborted>> /\ Held
  /\ ReentrantSharedSpinMutex_frame

\* _writeFlag.store(false, release);
ReentrantSharedSpinMutex_unlock_store(t) ==
  /\ At(t, "rs_unlock_store")
  /\ rs_writeFlag' = FALSE
  /\ Return(t, "none")
  /\ UNCHANGED <<rs_readCount, rs_owner, rs_reenCount, aborted>>
  /\ ReentrantSharedSpinMutex_frame

ReentrantSharedSpinMutex_call_lock_shared(t) ==
  /\ mutex = "ReentrantSharedSpinMutex" /\ xheld[t] = 0 /\ sheld[t] < MaxShared
  /\ Call(t, "rs_ls_inc")
  /\ UNCHANGED <<xheld, sheld, aborted, rsVars>>
  /\ ReentrantSharedSpinMutex_frame

\* _readCount.fetch_add(1, acquire);
ReentrantSharedSpinMutex_lock_shared_inc(t) ==
  /\ At(t, "rs_ls_inc")
  /\ rs_readCount' = rs_readCount + 1
  /\ Goto(t, "rs_ls_check")
  /\ UNCHANGED <<rs_writeFlag, rs_owner, rs_reenCount, aborted>> /\ Held
  /\ ReentrantSharedSpinMutex_frame


\* Faulty variant: the test of the write flag is inverted.
ReentrantSharedSpinMutex_lock_shared_check_inverted(t) ==
  /\ At(t, "rs_ls_check")
  /\ IF rs_writeFlag THEN ReturnShared(t, "none")
                     ELSE Goto(t, "rs_ls_dec") /\ Held
  /\ UNCHANGED <<rsVars, aborted>> /\ ReentrantSharedSpinMutex_frame

\* if (!_writeFlag.load(relaxed)) break;
ReentrantSharedSpinMutex_lock_shared_check(t) ==
  /\ At(t, "rs_ls_check")
  /\ IF rs_writeFlag THEN Goto(t, "rs_ls_dec") /\ Held
                     ELSE ReturnShared(t, "none")
  /\ UNCHANGED <<rsVars, aborted>> /\ ReentrantSharedSpinMutex_frame

\* _readCount.fetch_sub(1, relaxed);
ReentrantSharedSpinMutex_lock_shared_dec(t) ==
  /\ At(t, "rs_ls_dec")
  /\ rs_readCount' = rs_readCount - 1
  /\ Goto(t, "rs_ls_yield")
  /\ UNCHANGED <<rs_writeFlag, rs_owner, rs_reenCount, aborted>> /\ Held
  /\ ReentrantSharedSpinMutex_frame

\* std::this_thread::yield();
ReentrantSharedSpinMutex_lock_shared_yield(t) ==
  /\ At(t, "rs_ls_yield")
  /\ Goto(t, "rs_ls_inc")
  /\ UNCHANGED <<rsVars, aborted>> /\ Held /\ ReentrantSharedSpinMutex_frame

ReentrantSharedSpinMutex_call_try_lock_shared(t) ==
  /\ mutex = "ReentrantSharedSpinMutex" /\ sheld[t] < MaxShared
  /\ Call(t, "rs_tls_load")
  /\ UNCHANGED <<xheld, sheld, aborted, rsVars>>
  /\ ReentrantSharedSpinMutex_frame

\* if (!_writeFlag.load(relaxed)) ...   (else: return false)
ReentrantSharedSpinMutex_try_lock_shared_load(t) ==
  /\ At(t, "rs_tls_load")
  /\ IF rs_writeFlag THEN Return(t, "false")
                     ELSE Goto(t, "rs_tls_inc") /\ Held
  /\ UNCHANGED <<rsVars, aborted>> /\ ReentrantSharedSpinMutex_frame

\* _readCount.fetch_add(1, acquire);
ReentrantSharedSpinMutex_try_lock_shared_inc(t) ==
  /\ At(t, "rs_tls_inc")
  /\ rs_readCount' = rs_readCount + 1
  /\ Goto(t, "rs_tls_check")
  /\ UNCHANGED <<rs_writeFlag, rs_owner, rs_reenCount, aborted>> /\ Held
  /\ ReentrantSharedSpinMutex_frame

\* if (_writeFlag.load(relaxed)) ... ; return true;
ReentrantSharedSpinMutex_try_lock_shared_check(t) ==
  /\ At(t, "rs_tls_check")
  /\ IF rs_writeFlag THEN Goto(t, "rs_tls_dec") /\ Held
                     ELSE ReturnShared(t, "true")
  /\ UNCHANGED <<rsVars, aborted>> /\ ReentrantSharedSpinMutex_frame

\* _readCount.fetch_sub(1, relaxed); return false;
ReentrantSharedSpinMutex_try_lock_shared_dec(t) ==
  /\ At(t, "rs_tls_dec")
  /\ rs_readCount' = rs_readCount - 1
  /\ Return(t, "false")
  /\ UNCHANGED <<rs_writeFlag, rs_owner, rs_reenCount, aborted>>
  /\ ReentrantSharedSpinMutex_frame

ReentrantSharedSpinMutex_call_unlock_shared(t) ==
  /\ mutex = "ReentrantSharedSpinMutex" /\ sheld[t] > 0
  /\ Call(t, "rs_us_dec")
  /\ sheld' = [sheld EXCEPT ![t] = @ - 1]
  /\ UNCHANGED <<xheld, aborted, rsVars>> /\ ReentrantSharedSpinMutex_frame

\* _readCount.fetch_sub(1, relaxed);
ReentrantSharedSpinMutex_unlock_shared_dec(t) ==
  /\ At(t, "rs_us_dec")
  /\ rs_readCount' = rs_readCount - 1
  /\ Return(t, "none")
  /\ UNCHANGED <<rs_writeFlag, rs_owner, rs_reenCount, aborted>>
  /\ ReentrantSharedSpinMutex_frame

ReentrantSharedSpinMutex_step(t) ==
  \/ ReentrantSharedSpinMutex_lock_check(t)
  \/ ReentrantSharedSpinMutex_lock_nested(t)
  \/ ReentrantSharedSpinMutex_lock_inc(t)
  \/ ReentrantSharedSpinMutex_lock_exchange(t)
  \/ ReentrantSharedSpinMutex_lock_yield1(t)
  \/ ReentrantSharedSpinMutex_lock_drain(t)
  \/ ReentrantSharedSpinMutex_lock_yield2(t)
  \/ ReentrantSharedSpinMutex_lock_assert(t)
  \/ ReentrantSharedSpinMutex_lock_owner(t)
  \/ ReentrantSharedSpinMutex_lock_count(t)
  \/ ReentrantSharedSpinMutex_try_check(t)
  \/ ReentrantSharedSpinMutex_try_nested(t)
  \/ ReentrantSharedSpinMutex_try_inc(t)
  \/ ReentrantSharedSpinMutex_try_load(t)
  \/ ReentrantSharedSpinMutex_try_exchange(t)
  \/ ReentrantSharedSpinMutex_try_recheck(t)
  \/ ReentrantSharedSpinMutex_try_release(t)
  \/ ReentrantSharedSpinMutex_try_assert(t)
  \/ ReentrantSharedSpinMutex_try_owner(t)
  \/ ReentrantSharedSpinMutex_try_count(t)
  \/ ReentrantSharedSpinMutex_unlock_assert(t)
  \/ ReentrantSharedSpinMutex_unlock_dec(t)
  \/ ReentrantSharedSpinMutex_unlock_owner(t)
  \/ ReentrantSharedSpinMutex_unlock_store(t)
  \/ ReentrantSharedSpinMutex_lock_shared_inc(t)
  \/ ReentrantSharedSpinMutex_lock_shared_check(t)
  \/ ReentrantSharedSpinMutex_lock_shared_dec(t)
  \/ ReentrantSharedSpinMutex_lock_shared_yield(t)
  \/ ReentrantSharedSpinMutex_try_lock_shared_load(t)
  \/ ReentrantSharedSpinMutex_try_lock_shared_inc(t)
  \/ ReentrantSharedSpinMutex_try_lock_shared_check(t)
  \/ ReentrantSharedSpinMutex_try_lock_shared_dec(t)
  \/ ReentrantSharedSpinMutex_unlock_shared_dec(t)

ReentrantSharedSpinMutex_call(t) ==
  \/ ReentrantSharedSpinMutex_call_lock(t)
  \/ ReentrantSharedSpinMutex_call_try_lock(t)
  \/ ReentrantSharedSpinMutex_call_unlock(t)
  \/ ReentrantSharedSpinMutex_call_lock_shared(t)
  \/ ReentrantSharedSpinMutex_call_try_lock_shared(t)
  \/ ReentrantSharedSpinMutex_call_unlock_shared(t)

NextReentrantShared ==
  \E t \in Threads :
    ReentrantSharedSpinMutex_call(t) \/ ReentrantSharedSpinMutex_step(t)

InitReentrantShared ==
  mutex = "ReentrantSharedSpinMutex" /\ InitFields /\ InitThreads

SpecReentrantShared == InitReentrantShared /\ [][NextReentrantShared]_vars

(***************************************************************************)
(* A lock of any of the four classes.                                      *)
(***************************************************************************)
Next == NextSpin \/ NextShared \/ NextReentrant \/ NextReentrantShared

Spec == Init /\ [][Next]_vars

(***************************************************************************)
(* Vocabulary of the properties                                            *)
(***************************************************************************)
\* The threads that hold the exclusive side: returned from lock() or from a
\* successful try_lock(), and have not yet called the matching unlock().
ExclusiveHolders == {t \in Threads : xheld[t] > 0}

\* The threads that hold a shared hold.
SharedHolders == {t \in Threads : sheld[t] > 0}

(***************************************************************************)
(* C1  SpinMutex                                                           *)
(***************************************************************************)
\* C1: at most one thread is between a successful lock()/try_lock() of the
\* SpinMutex and its matching unlock(), and no thread is there twice.
C1_MutualExclusion ==
  /\ Cardinality(ExclusiveHolders) <= 1
  /\ \A t \in Threads : xheld[t] <= 1

\* A thread is in its critical section while another one spins in lock().
C1_Witness ==
  \E t, u \in Threads :
    /\ t # u
    /\ xheld[t] = 1 /\ pc[t] = "idle"
    /\ pc[u] = "sm_lock_yield"

(***************************************************************************)
(* C2 - C4  SharedSpinMutex                                                *)
(***************************************************************************)
\* C2: either no thread holds the exclusive side of the SharedSpinMutex, or
\* exactly one does and no thread holds a shared hold.
C2_ReaderWriterExclusion ==
  /\ Cardinality(ExclusiveHolders) <= 1
  /\ \A t \in Threads : xheld[t] <= 1
  /\ ExclusiveHolders # {} => SharedHolders = {}

\* A writer holds the lock and a reader that tried to enter is backing off.
C2_Witness ==
  \E t, u \in Threads :
    /\ t # u
    /\ xheld[t] = 1 /\ pc[t] = "idle"
    /\ pc[u] = "sh_ls_dec"

\* The threads whose lock() has finished the drain phase or whose try_lock()
\* returned true, and that have not yet called unlock().
SharedSpinMutex_writers ==
  {t \in Threads : xheld[t] > 0 \/ pc[t] = "sh_lock_owner"}

\* The threads inside lock_shared() or try_lock_shared() between their
\* fetch_add and the fetch_sub of their back-off.
SharedSpinMutex_transient ==
  {t \in Threads : pc[t] \in {"sh_ls_check", "sh_ls_dec",
                              "sh_tls_check", "sh_tls_dec"}}

\* C3 as stated: while a thread holds the exclusive side, read_locked_count()
\* is zero, whatever the other threads are doing.
C3_CountZeroWhileWriter ==
  SharedSpinMutex_writers # {} => sh_readCount = 0

\* C3 amended: while a thread holds the exclusive side, read_locked_count()
\* counts exactly the threads that are inside lock_shared() or
\* try_lock_shared() between their increment and their back-off decrement,
\* so it is zero when there is no such thread; no thread holds a shared hold.
C3_CountOnlyTransient ==
  SharedSpinMutex_writers # {} =>
    /\ sh_readCount = Cardinality(SharedSpinMutex_transient)
    /\ SharedHolders = {}

\* A writer holds the lock and the count is 1: a reader has incremented it
\* and has not yet backed off.
C3_Witness ==
  \E t \in Threads :
    /\ xheld[t] = 1 /\ pc[t] = "idle"
    /\ sh_readCount = 1

\* The threads that have the write flag: from their successful exchange in
\* lock() or try_lock() to their store of false.
SharedSpinMutex_flagOwners ==
  {t \in Threads :
     \/ xheld[t] > 0
     \/ pc[t] \in {"sh_lock_drain", "sh_lock_yield2", "sh_lock_owner",
                   "sh_try_recheck", "sh_try_release", "sh_try_owner",
                   "sh_unlock_assert", "sh_unlock_owner", "sh_unlock_store"}}

\* Thread t reads the write flag in lock_shared() / try_lock_shared() and
\* finds it false.
SharedSpinMutex_passesFlagCheck(t) ==
  \/ pc[t] = "sh_ls_check" /\ pc'[t] = "idle"
  \/ pc[t] = "sh_tls_load" /\ pc'[t] = "sh_tls_inc"
  \/ pc[t] = "sh_tls_check" /\ pc'[t] = "idle"

\* C4: while a writer has the write flag (from its exchange, through the
\* drain phase, to its store of false) no lock_shared() and no
\* try_lock_shared() passes its flag check.
C4_NoSharedPassUnderFlag ==
  [][\A t \in Threads :
       SharedSpinMutex_passesFlagCheck(t) =>
         ~sh_writeFlag /\ SharedSpinMutex_flagOwners = {}]_vars

\* A writer is in its drain phase and a reader has failed the flag check.
C4_Witness ==
  \E t, u \in Threads :
    /\ pc[t] \in {"sh_lock_drain", "sh_lock_yield2"}
    /\ pc[u] \in {"sh_ls_dec", "sh_tls_dec"}

(***************************************************************************)
(* C5, C6  ReentrantSpinMutex                                              *)
(***************************************************************************)
\* The statements of ReentrantSpinMutex that a call reaches only through
\* the spin loop of lock() or the exchange of try_lock().
ReentrantSpinMutex_acquiring ==
  {"re_lock_xchg", "re_lock_yield", "re_lock_assert", "re_lock_owner",
   "re_lock_cnt", "re_try_load", "re_try_xchg", "re_try_assert",
   "re_try_owner", "re_try_cnt"}

\* Thread t takes a step.
Moves(t) == pc'[t] # pc[t]

ReentrantSharedSpinMutex_claiming ==
  {"rs_lock_xchg", "rs_lock_yield1", "rs_lock_drain", "rs_lock_yield2",
   "rs_try_load", "rs_try_xchg", "rs_try_recheck", "rs_try_release"}

ThreadStep(t) ==
  \/ SpinMutex_step(t) \/ SharedSpinMutex_step(t)
  \/ ReentrantSpinMutex_step(t) \/ ReentrantSharedSpinMutex_step(t)

\* The most steps a call of try_lock() / try_lock_shared() that is at
\* statement l still takes before it returns, along the longest path.
TryRemaining(l) ==
  CASE l = "idle" -> 0
    [] l \in {"sm_try_owner", "sh_try_release", "sh_try_owner", "sh_tls_dec",
              "re_try_inc", "re_try_cnt", "rs_try_inc", "rs_try_release",
              "rs_try_cnt", "rs_tls_dec"} -> 1
    [] l \in {"sm_try_xchg", "sh_try_recheck", "sh_tls_check", "re_try_owner",
              "rs_try_nested", "rs_try_owner", "rs_tls_check"} -> 2
    [] l \in {"sm_try_load", "sh_try_xchg", "sh_tls_inc", "re_try_assert",
              "rs_try_assert", "rs_tls_inc"} -> 3
    [] l \in {"sh_try_load", "sh_tls_load", "re_try_xchg", "rs_try_recheck",
              "rs_tls_load"} -> 4
    [] l \in {"re_try_load", "rs_try_xchg"} -> 5
    [] l \in {"re_try_chk", "rs_try_load"} -> 6
    [] l = "rs_try_chk" -> 7

\* The statements of try_lock() and try_lock_shared().
TryStatements ==
  {"sm_try_load", "sm_try_xchg", "sm_try_owner",
   "sh_try_load", "sh_try_xchg", "sh_try_recheck", "sh_try_release",
   "sh_try_owner", "sh_tls_load", "sh_tls_inc", "sh_tls_check", "sh_tls_dec",
   "re_try_chk", "re_try_inc", "re_try_load", "re_try_xchg", "re_try_assert",
   "re_try_owner", "re_try_cnt",
   "rs_try_chk", "rs_try_nested", "rs_try_inc", "rs_try_load", "rs_try_xchg",
   "rs_try_recheck", "rs_try_release", "rs_try_assert", "rs_try_owner",
   "rs_try_cnt", "rs_tls_load", "rs_tls_inc", "rs_tls_check", "rs_tls_dec"}

\* C8: a thread inside try_lock() or try_lock_shared() can always take its
\* next step, whatever state the lock and the other threads are in; every
\* such step stays inside the call and brings it nearer to its return (at
\* most 7 steps from the first statement), and the call returns true or
\* false.
C8_TryNeverBlocks ==
  /\ [](\A t \in Threads :
          pc[t] \in TryStatements => ENABLED <<ThreadStep(t)>>_vars)
  /\ [][\A t \in Threads :
          pc[t] \in TryStatements /\ Moves(t) =>
            /\ pc'[t] \in TryStatements \cup {"idle"}
            /\ TryRemaining(pc'[t]) < TryRemaining(pc[t])
            /\ pc'[t] = "idle" => ret'[t] \in {"true", "false"}]_vars

\* A try_lock() of the ReentrantSharedSpinMutex has returned false while
\* another thread, inside lock(), has the write flag and waits for readers.
C8_Witness ==
  \E t, u \in Threads :
    /\ t # u
    /\ pc[t] = "rs_lock_yield2"
    /\ pc[u] = "idle" /\ ret[u] = "false" /\ sheld[u] > 0

(***************************************************************************)
(* C9  SpinMutex under fair scheduling                                     *)
(***************************************************************************)
\* Every thread that is inside a member function keeps taking steps, and
\* every thread that holds the lock calls unlock() in the end.
FairSpecSpin ==
  /\ SpecSpin
  /\ \A t \in Threads :
       WF_vars(SpinMutex_step(t)) /\ SF_vars(SpinMutex_call_unlock(t))

\* Thread b is in the loop of SpinMutex::lock().
SpinMutex_spinning(b) == pc[b] \in {"sm_lock_xchg", "sm_lock_yield"}

\* Thread a is inside SpinMutex::unlock().
SpinMutex_unlocking(a) ==
  pc[a] \in {"sm_unlock_assert", "sm_unlock_owner", "sm_unlock_store"}

\* C9 as stated: whenever b spins in lock() and the holder a calls unlock(),
\* b returns from lock() in the end.
C9_WaiterAcquires ==
  \A a, b \in Threads :
    (a # b /\ SpinMutex_spinning(b) /\ SpinMutex_unlocking(a))
      ~> (xheld[b] = 1)

\* C9 amended: whenever b spins in lock() and the holder a calls unlock(),
\* in the end b returns from lock() or another thread has won the flag
\* before b's exchange found it free.
C9_ReleaseIsTaken ==
  \A a, b \in Threads :
    (a # b /\ SpinMutex_spinning(b) /\ SpinMutex_unlocking(a))
      ~> \/ xheld[b] = 1
         \/ \E u \in Threads \ {b} :
              xheld[u] = 1 \/ pc[u] \in {"sm_lock_owner", "sm_try_owner"}

\* Thread b spins in lock() while the holder is about to clear the flag.
C9_Witness ==
  \E a, b \in Threads :
    /\ a # b
    /\ pc[b] = "sm_lock_yield"
    /\ pc[a] = "sm_unlock_store"

(***************************************************************************)
(* C10  the reader counts                                                  *)
(***************************************************************************)
\* The statements at which a thread has executed a fetch_add(1) on the
\* reader count and not yet the fetch_sub(1) that matches it: after the
\* increment of lock_shared() / try_lock_shared(), and in unlock_shared().
AfterIncrement ==
  {"sh_ls_check", "sh_ls_dec", "sh_tls_check", "sh_tls_dec",
   "sh_us_assert", "sh_us_dec",
   "rs_ls_check", "rs_ls_dec", "rs_tls_check", "rs_tls_dec", "rs_us_dec"}

\* The increments of thread t that no decrement has matched yet: one for
\* each shared hold it has, and one if it is at a statement of
\* AfterIncrement.
Unmatched(t) == sheld[t] + (IF pc[t] \in AfterIncrement THEN 1 ELSE 0)

RECURSIVE SumUnmatched(_)
SumUnmatched(T) ==
  IF T = {} THEN 0
  ELSE LET t == CHOOSE x \in T : TRUE
       IN Unmatched(t) + SumUnmatched(T \ {t})

\* C10: the reader count of the SharedSpinMutex and of the
\* ReentrantSharedSpinMutex is never negative and equals the number of
\* increments that threads have executed and not yet matched by a decrement.
C10_ReaderCount ==
  /\ sh_readCount >= 0 /\ rs_readCount >= 0
  /\ mutex = "SharedSpinMutex" => sh_readCount = SumUnmatched(Threads)
  /\ mutex = "ReentrantSharedSpinMutex" => rs_readCount = SumUnmatched(Threads)

\* A try_lock_shared() is about to take its increment back while a writer
\* waits for the shared hold of the same thread to be given back.
C10_Witness ==
  \E t, u \in Threads :
    /\ sheld[t] = 1 /\ pc[t] = "sh_tls_dec"
    /\ pc[u] = "sh_lock_yield2"
    /\ sh_readCount = 2

(***************************************************************************)
(* C11  unlock() by a thread that is not the exclusive owner               *)
(***************************************************************************)
\* A thread that holds no exclusive acquisition calls unlock() all the same:
\* the lock is unheld, held by another thread, or the caller has only shared
\* holds, or has already given back every acquisition it had.  xheld[t]
\* becomes negative: one unlock() more than acquisitions granted.
SpinMutex_call_unlock_unowned(t) ==
  /\ mutex = "SpinMutex" /\ xheld[t] = 0
  /\ Call(t, "sm_unlock_assert")
  /\ xheld' = [xheld EXCEPT ![t] = @ - 1]
  /\ UNCHANGED <<sheld, aborted, smVars>> /\ SpinMutex_frame

SharedSpinMutex_call_unlock_unowned(t) ==
  /\ mutex = "SharedSpinMutex" /\ xheld[t] = 0
  /\ Call(t, "sh_unlock_assert")
  /\ xheld' = [xheld EXCEPT ![t] = @ - 1]
  /\ UNCHANGED <<sheld, aborted, shVars>> /\ SharedSpinMutex_frame

ReentrantSpinMutex_call_unlock_unowned(t) ==
  /\ mutex = "ReentrantSpinMutex" /\ xheld[t] = 0
  /\ Call(t, "re_unlock_assert")
  /\ xheld' = [xheld EXCEPT ![t] = @ - 1]
  /\ UNCHANGED <<sheld, aborted, reVars>> /\ ReentrantSpinMutex_frame

ReentrantSharedSpinMutex_call_unlock_unowned(t) ==
  /\ mutex = "ReentrantSharedSpinMutex" /\ xheld[t] = 0
  /\ Call(t, "rs_unlock_assert")
  /\ xheld' = [xheld EXCEPT ![t] = @ - 1]
  /\ UNCHANGED <<sheld, aborted, rsVars>> /\ ReentrantSharedSpinMutex_frame

NextMisuse ==
  \/ Next
  \/ \E t \in Threads :
       \/ SpinMutex_call_unlock_unowned(t)
       \/ SharedSpinMutex_call_unlock_unowned(t)
       \/ ReentrantSpinMutex_call_unlock_unowned(t)
       \/ ReentrantSharedSpinMutex_call_unlock_unowned(t)

\* The four locks with callers that may also call unlock() wrongly.
SpecMisuse == Init /\ [][NextMisuse]_vars

\* The first statement of the four unlock() functions: the assertion.
UnlockAsserts ==
  {"sm_unlock_assert", "sh_unlock_assert", "re_unlock_assert",
   "rs_unlock_assert"}

SharedSpinMutex_exclusiveStatements ==
  {"sh_lock_xchg", "sh_lock_yield1", "sh_lock_drain", "sh_lock_yield2",
   "sh_lock_owner", "sh_try_load", "sh_try_xchg", "sh_try_recheck",
   "sh_try_release", "sh_try_owner", "sh_unlock_assert", "sh_unlock_owner",
   "sh_unlock_store"}

\* No thread executes lock(), try_lock() or unlock(), and none holds the
\* exclusive side.
SharedSpinMutex_noWriter ==
  \A u \in Threads :
    xheld[u] = 0 /\ pc[u] \notin SharedSpinMutex_exclusiveStatements

\* The shared holds of the threads of T, added up.
RECURSIVE SumShared(_)
SumShared(T) ==
  IF T = {} THEN 0
  ELSE LET t == CHOOSE x \in T : TRUE
       IN sheld[t] + SumShared(T \ {t})

\* C12: while no thread executes an exclusive operation, a thread inside
\* lock_shared() can always take its step, the increment is followed by the
\* test of the write flag and that test ends the call with a shared hold
\* granted (no second iteration, whatever the other readers do); and once
\* every call has returned read_locked_count() is the number of shared holds
\* the threads have, 0 when all of them have been given back.
C12_ReadersShare ==
  /\ [](\A t \in Threads :
          SharedSpinMutex_noWriter /\ pc[t] \in {"sh_ls_inc", "sh_ls_check"}
            => ENABLED <<SharedSpinMutex_step(t)>>_vars)
  /\ [](SharedSpinMutex_noWriter /\ (\A t \in Threads : pc[t] = "idle")
          => sh_readCount = SumShared(Threads))
  /\ [][\A t \in Threads :
          SharedSpinMutex_noWriter /\ Moves(t) =>
            /\ pc[t] = "sh_ls_inc" => pc'[t] = "sh_ls_check"
            /\ pc[t] = "sh_ls_check" =>
                 pc'[t] = "idle" /\ sheld'[t] = sheld[t] + 1]_vars

\* Every thread has a shared hold, no call is under way, and
\* read_locked_count() is the number of threads.
C12_Witness ==
  /\ mutex = "SharedSpinMutex"
  /\ \A t \in Threads : pc[t] = "idle" /\ sheld[t] = 1 /\ xheld[t] = 0
  /\ sh_readCount = NThreads

(***************************************************************************)
(* C13  SharedSpinMutex: the drain loop of lock() under fair scheduling    *)
(***************************************************************************)
\* Every thread that is inside a member function keeps taking steps.
FairSpecShared ==
  /\ SpecShared
  /\ \A t \in Threads : WF_vars(SharedSpinMutex_step(t))

\* Thread w has claimed the write flag and is in the drain loop of lock(),
\* and every shared hold has been given back: its holder has called
\* unlock_shared().
SharedSpinMutex_draining(w) ==
  /\ pc[w] \in {"sh_lock_drain", "sh_lock_yield2"}
  /\ \A r \in Threads : sheld[r] = 0

\* Thread r is in the loop of lock_shared().
SharedSpinMutex_inLockShared(r) ==
  pc[r] \in {"sh_ls_inc", "sh_ls_check", "sh_ls_dec", "sh_ls_yield"}

\* C13 as stated: once w is in the drain loop and every shared hold has been
\* given back, lock() of w returns in the end.
C13_DrainTerminates ==
  \A w \in Threads : SharedSpinMutex_draining(w) ~> (xheld[w] = 1)

\* C13 amended: once w is in the drain loop and every shared hold has been
\* given back, in the end lock() of w returns or another thread is in the
\* loop of lock_shared(), whose increments the drain loop may read.
C13_DrainUnlessChurn ==
  \A w \in Threads :
    SharedSpinMutex_draining(w)
      ~> \/ xheld[w] = 1
         \/ \E r \in Threads \ {w} : SharedSpinMutex_inLockShared(r)

\* The writer is in the drain loop, no shared hold is left, and a reader
\* that saw the write flag is about to take its increment back.
C13_Witness ==
  \E w, r \in Threads :
    /\ w # r
    /\ pc[w] = "sh_lock_yield2" /\ pc[r] = "sh_ls_dec"
    /\ sh_readCount = 1 /\ \A u \in Threads : sheld[u] = 0

(***************************************************************************)
(* C14  a second lock_shared() of a thread that has a shared hold          *)
(***************************************************************************)
\* A SharedSpinMutex or a ReentrantSharedSpinMutex, and every thread that
\* is inside a member function keeps taking steps.
FairSpecSharedKinds ==
  /\ InitShared \/ InitReentrantShared
  /\ [][NextShared \/ NextReentrantShared]_vars
  /\ \A t \in Threads :
       WF_vars(SharedSpinMutex_step(t) \/ ReentrantSharedSpinMutex_step(t))

\* Thread r has a shared hold and is inside lock_shared() once more.
SecondLockShared(r) ==
  /\ sheld[r] > 0
  /\ pc[r] \in {"sh_ls_inc", "sh_ls_check", "sh_ls_dec", "sh_ls_yield",
                "rs_ls_inc", "rs_ls_check", "rs_ls_dec", "rs_ls_yield"}

\* C14 as stated: a lock_shared() called by a thread that has a shared hold
\* returns in the end, whatever the other threads do.
C14_SecondHoldGranted ==
  \A r \in Threads : SecondLockShared(r) ~> (pc[r] = "idle")

\* The write flag of the lock.
WriteFlag ==
  \/ mutex = "SharedSpinMutex" /\ sh_writeFlag
  \/ mutex = "ReentrantSharedSpinMutex" /\ rs_writeFlag

\* Thread w has claimed the write flag and is in the drain loop of lock().
Draining(w) ==
  pc[w] \in {"sh_lock_drain", "sh_lock_yield2",
             "rs_lock_drain", "rs_lock_yield2"}

\* C14 amended: a thread that has a shared hold and is inside lock_shared()
\* once more can always take its next step, and the call returns with a
\* second hold at its first test of the write flag that finds the flag
\* clear, the first hold being kept; but once another thread is in the
\* drain loop of lock(), the two threads stay where they are for ever: the
\* writer waits for the first hold to be given back, the reader backs off
\* from the write flag.
C14_SecondHoldOrStuck ==
  /\ [](\A r \in Threads :
          SecondLockShared(r) /\ ~aborted =>
            ENABLED <<SharedSpinMutex_step(r)
                      \/ ReentrantSharedSpinMutex_step(r)>>_vars)
  /\ [][\A r \in Threads :
          /\ SecondLockShared(r) /\ pc[r] \in {"sh_ls_check", "rs_ls_check"}
               /\ Moves(r) /\ ~WriteFlag
               => pc'[r] = "idle" /\ sheld'[r] = sheld[r] + 1
          /\ \A w \in Threads \ {r} :
               SecondLockShared(r) /\ Draining(w)
                 => SecondLockShared(r)' /\ Draining(w)']_vars

\* A thread that has a shared hold backs off inside its second
\* lock_shared() while another thread, inside lock(), waits for the reader
\* count to become zero.
C14_Witness ==
  \E r, w \in Threads :
    /\ r # w
    /\ sheld[r] = 1 /\ pc[r] = "rs_ls_yield"
    /\ pc[w] = "rs_lock_yield2" /\ rs_readCount = 1

(***************************************************************************)
(* C15  SpinMutex: the owner                                               *)
(***************************************************************************)
\* Thread t has the flag: its exchange in lock() or try_lock() found the
\* flag false, and it has not yet stored false in unlock().
SpinMutex_hasFlag(t) ==
  \/ pc[t] \in {"sm_lock_owner", "sm_try_owner"}
  \/ xheld[t] = 1
  \/ pc[t] \in {"sm_unlock_assert", "sm_unlock_owner", "sm_unlock_store"}

\* C15: owner() is nonzero only while the flag is true, and is then the
\* identity of the thread that has the flag; while the flag is false
\* owner() is 0; and from the return of lock() or of a successful
\* try_lock() to the call of unlock(), owner() is the caller's identity.
C15_OwnerTracksFlag ==
  /\ sm_owner # 0 =>
       /\ sm_flag
       /\ \E t \in Threads : SpinMutex_hasFlag(t) /\ sm_owner = g_threadId[t]
  /\ ~sm_flag => sm_owner = 0
  /\ \A t \in Threads : xheld[t] = 1 => sm_owner = g_threadId[t]

\* A thread is in its critical section with owner() set to its identity
\* while another thread's try_lock() has just returned false.
C15_Witness ==
  \E t, u \in Threads :
    /\ t # u
    /\ xheld[t] = 1 /\ pc[t] = "idle" /\ sm_owner = g_threadId[t]
    /\ pc[u] = "idle" /\ ret[u] = "false"

(***************************************************************************)
(* C16  the reentry count and the owner of the reentrant locks             *)
(***************************************************************************)
\* The threads between the two writes that change owner and count together:
\* after _owner = id and before _reenCount = 1 in lock() / try_lock(), and
\* after _reenCount-- has reached 0 and before _owner = 0 in unlock().
ReentrantSpinMutex_betweenWrites ==
  {t \in Threads : pc[t] \in {"re_lock_cnt", "re_try_cnt", "re_unlock_owner"}}

ReentrantSharedSpinMutex_betweenWrites ==
  {t \in Threads : pc[t] \in {"rs_lock_cnt", "rs_try_cnt", "rs_unlock_owner"}}

HasWriteFlag(u) ==
  \/ xheld[u] > 0
  \/ pc[u] \in {"sh_lock_drain", "sh_lock_yield2", "sh_lock_owner",
                "sh_try_recheck", "sh_try_release", "sh_try_owner",
                "sh_unlock_assert", "sh_unlock_owner", "sh_unlock_store",
                "rs_lock_drain", "rs_lock_yield2", "rs_lock_assert",
                "rs_lock_owner", "rs_lock_cnt", "rs_try_recheck",
                "rs_try_release", "rs_try_assert", "rs_try_owner",
                "rs_try_cnt", "rs_unlock_assert", "rs_unlock_dec",
                "rs_unlock_owner", "rs_unlock_store"}

\* No thread is inside a member function and no thread holds the lock.
Quiescent ==
  \A t \in Threads : pc[t] = "idle" /\ xheld[t] = 0 /\ sheld[t] = 0

\* The statements of try_lock() and try_lock_shared() of the two shared
\* locks.
SharedTryStatements ==
  {"sh_try_load", "sh_try_xchg", "sh_try_recheck", "sh_try_release",
   "sh_tls_load", "sh_tls_inc", "sh_tls_check", "sh_tls_dec",
   "rs_try_chk", "rs_try_load", "rs_try_xchg", "rs_try_recheck",
   "rs_try_release", "rs_tls_load", "rs_tls_inc", "rs_tls_check",
   "rs_tls_dec"}

\* C17: when a try_lock() or try_lock_shared() of a shared lock returns
\* false, the write flag is set only if a thread has it (the call that has
\* returned has not), the reader count counts no increment of that call,
\* and the caller holds what it held before; and whenever no thread is
\* inside a member function and none holds the lock, the write flag is
\* false, the reader count 0, the owner 0 and the reentry count 0.
C17_FailedTryLeavesNothing ==
  /\ [](Quiescent =>
          /\ ~sh_writeFlag /\ sh_readCount = 0 /\ sh_owner = 0
          /\ ~rs_writeFlag /\ rs_readCount = 0 /\ rs_owner = 0
          /\ rs_reenCount = 0)
  /\ [][\A t \in Threads :
          pc[t] \in SharedTryStatements /\ pc'[t] = "idle"
            /\ ret'[t] = "false" =>
              /\ (sh_writeFlag' \/ rs_writeFlag') =>
                   \E u \in Threads : HasWriteFlag(u)'
              /\ IF mutex = "SharedSpinMutex"
                   THEN sh_readCount' = SumUnmatched(Threads)'
                   ELSE rs_readCount' = SumUnmatched(Threads)'
              /\ xheld'[t] = xheld[t] /\ sheld'[t] = sheld[t]]_vars

\* No thread is inside a member function or holds the SharedSpinMutex, the
\* fields are as constructed, and the last call of every thread was a try
\* that returned false.
C17_Witness ==
  /\ mutex = "SharedSpinMutex" /\ Quiescent
  /\ \A t \in Threads : ret[t] = "false"
  /\ ~sh_writeFlag /\ sh_readCount = 0 /\ sh_owner = 0

(***************************************************************************)
(* C18  the assertions                                                     *)
(***************************************************************************)
\* The condition of the assert() that thread t is about to evaluate holds
\* (TRUE if t is not at an assert()).
AssertCondition(t) ==
  CASE pc[t] = "sm_unlock_assert" -> sm_owner = g_threadId[t]
    [] pc[t] = "sh_unlock_assert" -> sh_owner = g_threadId[t]
    [] pc[t] = "sh_us_assert" -> sh_owner = 0
    [] pc[t] = "re_lock_assert" -> re_reenCount = 0 /\ re_owner = 0
    [] pc[t] = "re_try_assert" -> re_reenCount = 0
    [] pc[t] = "re_unlock_assert" -> re_owner = g_threadId[t]
    [] pc[t] = "rs_lock_nested" -> rs_reenCount > 0
    [] pc[t] = "rs_lock_assert" -> rs_reenCount = 0
    [] pc[t] = "rs_try_nested" -> rs_reenCount > 0
    [] pc[t] = "rs_try_assert" -> rs_reenCount = 0
    [] pc[t] = "rs_unlock_assert" -> rs_owner = g_threadId[t]
    [] OTHER -> TRUE

\* C18: no assert() has failed, and whenever a thread is about to evaluate
\* an assert() its condition holds, whatever the other threads do before
\* the thread takes that step.
C18_NoAssertFails ==
  /\ ~aborted
  /\ \A t \in Threads : AssertCondition(t)

\* A reader is at the assert(_owner == 0) of unlock_shared() while a writer
\* has the write flag and waits in the drain loop of lock().
C18_Witness ==
  \E r, w \in Threads :
    /\ r # w /\ ~aborted
    /\ pc[r] = "sh_us_assert" /\ sh_owner = 0
    /\ pc[w] = "sh_lock_yield2" /\ sh_writeFlag

(***************************************************************************)
(* C19  SharedSpinMutex: try_lock() against try_lock_shared()              *)
(***************************************************************************)
\* No thread holds the lock, and the threads other than t and u are outside
\* every member function.
SharedSpinMutex_onlyUsers(t, u) ==
  /\ \A v \in Threads : xheld[v] = 0 /\ sheld[v] = 0
  /\ \A v \in Threads \ {t, u} : pc[v] = "idle"

\* The try_lock() of t and the try_lock_shared() of u are both at the
\* statement from which they return false: t has seen a reader at its
\* second test of the count and is about to give the flag back, u has seen
\* the flag after its increment and is about to take the increment back.
SharedSpinMutex_bothFail(t, u) ==
  pc[t] = "sh_try_release" /\ pc[u] = "sh_tls_dec"

\* The statements of try_lock() and try_lock_shared() from which the call
\* can still return true.
SharedSpinMutex_tryUndecided ==
  {"sh_try_load", "sh_try_xchg", "sh_try_recheck", "sh_try_owner",
   "sh_tls_load", "sh_tls_inc", "sh_tls_check"}

\* C19 as stated: on a lock that nobody holds and two threads use, a
\* try_lock() and a concurrent try_lock_shared() never both come to return
\* false.
C19_OneTrySucceeds ==
  \A t, u \in Threads :
    t # u /\ SharedSpinMutex_onlyUsers(t, u)
      => ~SharedSpinMutex_bothFail(t, u)

\* C19 amended: the two calls never both return true; a call of which a
\* step is taken while nobody holds the lock and every other thread is
\* outside its calls goes on towards returning true; and the two calls both
\* return false only after try_lock() has claimed the flag and seen the
\* increment of try_lock_shared(), and try_lock_shared() has seen the flag.
C19_OneTryUnlessRace ==
  /\ [](ExclusiveHolders # {} => SharedHolders = {})
  /\ [](\A t, u \in Threads :
          t # u /\ SharedSpinMutex_onlyUsers(t, u)
            /\ SharedSpinMutex_bothFail(t, u)
            => sh_writeFlag /\ sh_readCount = 1 /\ sh_owner = 0)
  /\ [][\A t \in Threads :
          /\ SharedSpinMutex_onlyUsers(t, t)
          /\ pc[t] \in SharedSpinMutex_tryUndecided /\ Moves(t)
          => /\ pc'[t] \in SharedSpinMutex_tryUndecided \cup {"idle"}
             /\ pc'[t] = "idle" => ret'[t] = "true"]_vars

\* Nobody holds the lock, and a try_lock() and a try_lock_shared() are both
\* about to undo their claim and return false.
C19_Witness ==
  \E t, u \in Threads :
    /\ t # u /\ SharedSpinMutex_bothFail(t, u)
    /\ \A v \in Threads : xheld[v] = 0 /\ sheld[v] = 0
    /\ sh_writeFlag /\ sh_readCount = 1

(***************************************************************************)
(* C20  the reentrant locks and the identities of the threads              *)
(***************************************************************************)
\* get_thread_id() is atoi() of the text of std::this_thread::get_id():
\* the number the text starts with, 0 if it starts with none, and equal for
\* two threads whose texts start alike.  The identities are any small
\* numbers, 0 and equal ones among them.
InitThreadsAnyIdentity ==
  /\ g_threadId \in [Threads -> 0 .. NThreads]
  /\ pc = [t \in Threads |-> "idle"]
  /\ xheld = [t \in Threads |-> 0]
  /\ sheld = [t \in Threads |-> 0]
  /\ ret = [t \in Threads |-> "none"]
  /\ aborted = FALSE

InitAnyIdentity ==
  /\ mutex \in {"ReentrantSpinMutex", "ReentrantSharedSpinMutex"}
  /\ InitFields /\ InitThreadsAnyIdentity

\* The two reentrant locks, used correctly by threads of any identities.
SpecAnyIdentity ==
  InitAnyIdentity /\ [][NextReentrant \/ NextReentrantShared]_vars

\* is_locked() of ReentrantSpinMutex, is_write_locked() of
\* ReentrantSharedSpinMutex.
ReentrantFlag ==
  IF mutex = "ReentrantSpinMutex" THEN re_flag ELSE rs_writeFlag

\* C20: whatever the identities of the threads, while a thread is between
\* the return of its lock() / successful try_lock() and the matching
\* unlock(), the flag of the reentrant lock is true and no other thread is
\* between an acquisition and its unlock().
C20_ExclusiveForEveryIdentity ==
  /\ ExclusiveHolders # {} => ReentrantFlag
  /\ Cardinality(ExclusiveHolders) <= 1

====
